---- MODULE Spec2Model ----
(***************************************************************************)
(* Price-Tracking Tool (customgui.py): the product store (PriceFetcher),   *)
(* the observer registry (PriceTracker), the update strategy and the two   *)
(* GUI handlers that drive them (add_product, update_price).               *)
(*                                                                         *)
(* Python values are modelled with their type where the code depends on it:*)
(* an observer id drawn by random.randint is an int, the text of an entry  *)
(* widget and a key read back from products.json are str, and 5 != "5".    *)
(***************************************************************************)
EXTENDS Integers, Sequences, FiniteSets, TLC

\* ------------------------------------------------------------------ bounds
\* random.randint(1, 1000) is narrowed to 1..MaxId
MaxId == 2
\* PriceTracker_observer objects constructed through the class interface
MaxObjs == 2
\* length of one PriceTracker.observers list
MaxAttach == 3
\* product records held by the store at one time
MaxProducts == 2

Names == {"Widget", "Gadget"}
\* the text of a price entry is any string; the store never reads it
Prices == {"80", "100"}
\* the prices users register products at
ListPrices == {"100"}
Usernames == {"admin", "user"}

\* ------------------------------------------------------------ Python values
IntKey(n) == [t |-> "int", n |-> n]
StrKey(n) == [t |-> "str", n |-> n]
\* the text of an entry widget left empty: ""
EmptyEntry == [t |-> "empty", n |-> 0]
\* str(k) as json.dump applies it to a dict key: an int becomes its numeral
Str(k) == IF k.t = "int" THEN StrKey(k.n) ELSE k
\* bool(k) of an entry text: only "" is falsy
Truthy(k) == k.t # "empty"

ObserverIds == 1..MaxId
IntKeys == {IntKey(n) : n \in ObserverIds}
StrKeys == {StrKey(n) : n \in ObserverIds}
\* what the admin can type as Observer ID: a registered numeral, one that was
\* never generated, or nothing
EntryIds == {StrKey(n) : n \in 1..(MaxId + 1)} \cup {EmptyEntry}

\* ------------------------------------------------------------------- dicts
\* an inner dict {product_name: price}
EmptyDict == [x \in {} |-> "80"]
Put(d, name, price) ==
    [x \in (DOMAIN d) \cup {name} |-> IF x = name THEN price ELSE d[x]]
Del(d, name) == [x \in (DOMAIN d) \ {name} |-> d[x]]

\* the outer dict is a sequence of [k, v] in insertion order, keys distinct
Keys(prods) == {prods[i].k : i \in DOMAIN prods}
Has(prods, k) == k \in Keys(prods)
Idx(prods, k) == CHOOSE i \in DOMAIN prods : prods[i].k = k
Get(prods, k) == prods[Idx(prods, k)].v
\* d[k] = v: a present key keeps its position, a new key goes last
SetItem(prods, k, v) ==
    IF Has(prods, k)
    THEN [prods EXCEPT ![Idx(prods, k)] = [k |-> k, v |-> v]]
    ELSE Append(prods, [k |-> k, v |-> v])
\* dict equality ignores order
AsMap(prods) == [k \in Keys(prods) |-> Get(prods, k)]

\* -------------------------------------------------------------------- json
\* json.dump(self.products): one member per key, in order, the key as str(key);
\* two keys with the same text give two members with the same name
Dump(prods) == [i \in DOMAIN prods |-> [k |-> Str(prods[i].k), v |-> prods[i].v]]

\* json.load: members are stored into a dict one by one, a repeated name
\* replaces the value stored before
RECURSIVE LoadFrom(_, _)
LoadFrom(doc, acc) ==
    IF doc = <<>> THEN acc
    ELSE LoadFrom(Tail(doc), SetItem(acc, Head(doc).k, Head(doc).v))
Load(doc) == LoadFrom(doc, <<>>)

MissingFile == [exists |-> FALSE, doc |-> <<>>]

\* ------------------------------------------------------------ PriceFetcher
\* a store state st is [instance, products, file, saves]: the singleton's
\* _instance being set, its products, products.json, and the number of
\* _save_data calls made by the running operation

PriceFetcher_save_data(st) ==
    [st EXCEPT !.file = [exists |-> TRUE, doc |-> Dump(st.products)],
               !.saves = st.saves + 1]

PriceFetcher_load_data(st) ==
    IF st.file.exists
    THEN [st EXCEPT !.products = Load(st.file.doc)]
    ELSE PriceFetcher_save_data([st EXCEPT !.products = <<>>])

\* PriceFetcher(): the first call creates the instance and loads the file
PriceFetcher_new(st) ==
    IF st.instance THEN st
    ELSE PriceFetcher_load_data([st EXCEPT !.instance = TRUE, !.products = <<>>])

\* a variant that replaces the identity's inner dict instead of adding to it
add_product_forgets_others(st, observer_id, product_name, initial_price) ==
    [st |-> PriceFetcher_save_data(
                [st EXCEPT !.products =
                    SetItem(st.products, observer_id,
                            Put(EmptyDict, product_name, initial_price))]),
     ret |-> TRUE]

\* a variant that creates a new identity without its first product
add_product_empty_entry(st, observer_id, product_name, initial_price) ==
    [st |-> PriceFetcher_save_data(
                [st EXCEPT !.products =
                    IF Has(st.products, observer_id)
                    THEN SetItem(st.products, observer_id,
                                 Put(Get(st.products, observer_id),
                                     product_name, initial_price))
                    ELSE SetItem(st.products, observer_id, EmptyDict)]),
     ret |-> TRUE]

PriceFetcher_add_product(st, observer_id, product_name, initial_price) ==
    [st |-> PriceFetcher_save_data(
                [st EXCEPT !.products =
                    IF Has(st.products, observer_id)
                    THEN SetItem(st.products, observer_id,
                                 Put(Get(st.products, observer_id),
                                     product_name, initial_price))
                    ELSE SetItem(st.products, observer_id,
                                 Put(EmptyDict, product_name, initial_price))]),
     ret |-> TRUE]

PriceFetcher_update_price(st, observer_id, product_name, new_price) ==
    IF /\ Has(st.products, observer_id)
       /\ product_name \in DOMAIN Get(st.products, observer_id)
    THEN [st |-> PriceFetcher_save_data(
                    [st EXCEPT !.products =
                        SetItem(st.products, observer_id,
                                Put(Get(st.products, observer_id),
                                    product_name, new_price))]),
          ret |-> TRUE]
    ELSE [st |-> st, ret |-> FALSE]

PriceFetcher_get_price(st, observer_id) ==
    IF Has(st.products, observer_id) THEN Get(st.products, observer_id)
    ELSE EmptyDict


\* ------------------------------------------------- strategy (PriceUpdater)
\* ImmediateUpdate.update: obtains the singleton and updates; the boolean
\* PriceFetcher.update_price returns is dropped, the method returns None
ImmediateUpdate_update(st, observer_id, product_name, new_price) ==
    PriceFetcher_update_price(PriceFetcher_new(st),
                              observer_id, product_name, new_price).st

PriceUpdater_update_price(st, observer_id, product_name, new_price) ==
    ImmediateUpdate_update(st, observer_id, product_name, new_price)

\* ------------------------------------------------------------ PriceTracker
\* objs is the heap of PriceTracker_observer objects, an object is its index;
\* observers is the list of one PriceTracker

\* PriceTracker_observer.update prints one line
Line(o, price) ==
    [observer_id |-> o.observer_id, product_name |-> o.product_name,
     price |-> price]

PriceTracker_attach(obs, o) == Append(obs, o)

RemoveFirst(s, x) ==
    LET i == CHOOSE i \in 1..Len(s) :
                 s[i] = x /\ \A j \in 1..(i - 1) : s[j] # x
    IN SubSeq(s, 1, i - 1) \o SubSeq(s, i + 1, Len(s))

\* a variant that removes every entry equal to the observer
detach_removes_all(obs, o) ==
    IF \E i \in 1..Len(obs) : obs[i] = o
    THEN [observers |-> SelectSeq(obs, LAMBDA x : x # o), raised |-> "none"]
    ELSE [observers |-> obs, raised |-> "ValueError"]

\* list.remove(x): removes the first item equal to x (objects without __eq__
\* are equal only to themselves), raises ValueError when there is none
PriceTracker_detach(obs, o) ==
    IF \E i \in 1..Len(obs) : obs[i] = o
    THEN [observers |-> RemoveFirst(obs, o), raised |-> "none"]
    ELSE [observers |-> obs, raised |-> "ValueError"]

RECURSIVE NotifyLoop(_, _, _, _)
NotifyLoop(heap, rest, observer_id, price) ==
    IF rest = <<>> THEN <<>>
    ELSE (IF IntKey(heap[Head(rest)].observer_id) = observer_id
          THEN <<Line(heap[Head(rest)], price)>>
          ELSE <<>>)
         \o NotifyLoop(heap, Tail(rest), observer_id, price)

\* a variant that stops at the first matching entry
notify_first_match_only(heap, obs, observer_id, price) ==
    LET all == NotifyLoop(heap, obs, observer_id, price)
    IN IF all = <<>> THEN <<>> ELSE <<Head(all)>>

\* the lines printed by notify(observer_id, price)
PriceTracker_notify(heap, obs, observer_id, price) ==
    NotifyLoop(heap, obs, observer_id, price)

PriceTracker_update_price(st, heap, obs, observer_id, product_name, new_price) ==
    [st |-> PriceUpdater_update_price(st, observer_id, product_name, new_price),
     delivered |-> PriceTracker_notify(heap, obs, observer_id, new_price)]

\* ------------------------------------------------- ProductManagementSystem
\* add_product: the observer and the tracker it is attached to are locals of
\* the handler; only the store keeps anything once it returns
ProductManagementSystem_add_product(st, observer_id, product_name, product_price) ==
    LET observer == [observer_id |-> observer_id, product_name |-> product_name,
                     price |-> product_price]
        price_tracker == PriceTracker_attach(<<>>, observer)
    IN [st |-> PriceFetcher_add_product(st, IntKey(observer.observer_id),
                                        product_name, product_price).st,
        msg |-> "Success",
        attached |-> {[observer_id |-> price_tracker[i].observer_id,
                       product_name |-> price_tracker[i].product_name]
                      : i \in DOMAIN price_tracker}]

Purge(st, observer_id, product_name) ==
    [st EXCEPT !.products =
        SetItem(st.products, observer_id,
                Del(Get(st.products, observer_id), product_name))]

\* a variant that purges the record without writing the file again
update_price_purge_not_saved(st, username, observer_id, product_name, new_price) ==
    IF username # "admin" THEN [st |-> st, msg |-> "Denied", delivered |-> <<>>]
    ELSE IF ~(Truthy(observer_id)
              /\ product_name \in DOMAIN PriceFetcher_get_price(st, observer_id))
    THEN [st |-> st, msg |-> "NotFound", delivered |-> <<>>]
    ELSE LET r == PriceFetcher_update_price(st, observer_id, product_name, new_price)
         IN IF r.ret
            THEN [st |-> Purge(r.st, observer_id, product_name),
                  msg |-> "Success", delivered |-> <<>>]
            ELSE [st |-> r.st, msg |-> "Failed", delivered |-> <<>>]

\* a variant that writes the file on every path
update_price_always_saves(st, username, observer_id, product_name, new_price) ==
    IF username # "admin" THEN [st |-> st, msg |-> "Denied", delivered |-> <<>>]
    ELSE IF ~(Truthy(observer_id)
              /\ product_name \in DOMAIN PriceFetcher_get_price(st, observer_id))
    THEN [st |-> PriceFetcher_save_data(st), msg |-> "NotFound",
          delivered |-> <<>>]
    ELSE LET r == PriceFetcher_update_price(st, observer_id, product_name, new_price)
         IN IF r.ret
            THEN [st |-> PriceFetcher_save_data(
                             Purge(r.st, observer_id, product_name)),
                  msg |-> "Success", delivered |-> <<>>]
            ELSE [st |-> PriceFetcher_save_data(r.st), msg |-> "Failed",
                  delivered |-> <<>>]

\* update_price: the admin's handler. No PriceTracker is involved: nothing is
\* printed by an observer
ProductManagementSystem_update_price(st, username, observer_id, product_name, new_price) ==
    IF username # "admin" THEN [st |-> st, msg |-> "Denied", delivered |-> <<>>]
    ELSE IF ~(Truthy(observer_id)
              /\ product_name \in DOMAIN PriceFetcher_get_price(st, observer_id))
    THEN [st |-> st, msg |-> "NotFound", delivered |-> <<>>]
    ELSE LET r == PriceFetcher_update_price(st, observer_id, product_name, new_price)
         IN IF r.ret
            THEN [st |-> PriceFetcher_save_data(
                             Purge(r.st, observer_id, product_name)),
                  msg |-> "Success", delivered |-> <<>>]
            ELSE [st |-> r.st, msg |-> "Failed", delivered |-> <<>>]

\* ------------------------------------------------------------------- state
VARIABLES
    instance,    \* PriceFetcher._instance is set
    products,    \* PriceFetcher._instance.products
    file,        \* products.json
    registered,  \* (observer id, product name) of the observers add_product attached in this process
    objs,        \* PriceTracker_observer objects made through the class interface
    observers,   \* PriceTracker.observers of the tracker they are attached to
    delivered,   \* the lines the observers printed during the last operation
    last         \* the last operation and what it reported

vars == <<instance, products, file, registered, objs, observers, delivered, last>>

St == [instance |-> instance, products |-> products, file |-> file, saves |-> 0]

Op(op, msg, saves, raised) ==
    [op |-> op, msg |-> msg, saves |-> saves, raised |-> raised]

SetStore(st) ==
    /\ instance' = st.instance
    /\ products' = st.products
    /\ file' = st.file

RECURSIVE NumRecords(_)
NumRecords(prods) ==
    IF prods = <<>> THEN 0
    ELSE Cardinality(DOMAIN Head(prods).v) + NumRecords(Tail(prods))

Init ==
    /\ instance = FALSE
    /\ products = <<>>
    /\ file = MissingFile
    /\ registered = {}
    /\ objs = <<>>
    /\ observers = <<>>
    /\ delivered = <<>>
    /\ last = Op("init", "-", 0, "none")

\* ---------------------------------------------------------- the application
\* ProductManagementSystem.__init__: self.price_fetcher = PriceFetcher()
Startup ==
    /\ ~instance
    /\ \E st \in {PriceFetcher_new(St)} :
          /\ SetStore(st)
          /\ last' = Op("startup", "-", st.saves, "none")
    /\ delivered' = <<>>
    /\ UNCHANGED <<registered, objs, observers>>

\* the Add Product button, random.randint having drawn n
AddProductStep(n, name, price) ==
    /\ instance
    /\ \E r \in {ProductManagementSystem_add_product(St, n, name, price)} :
          /\ NumRecords(r.st.products) <= MaxProducts
          /\ SetStore(r.st)
          /\ registered' = registered \cup r.attached
          /\ last' = Op("add_product", r.msg, r.st.saves, "none")
    /\ delivered' = <<>>
    /\ UNCHANGED <<objs, observers>>

UserAddProduct ==
    \E n \in ObserverIds, name \in Names, price \in ListPrices :
        AddProductStep(n, name, price)

\* the Update Price button
UpdatePriceStep(username, id, name, price) ==
    /\ instance
    /\ \E r \in {ProductManagementSystem_update_price(St, username, id, name, price)} :
          /\ SetStore(r.st)
          /\ delivered' = r.delivered
          /\ last' = Op("update_price", r.msg, r.st.saves, "none")
    /\ UNCHANGED <<registered, objs, observers>>

\* the entries are not looked at when the login name is not admin: one text
\* each stands for them there
AdminUpdatePrice ==
    \E username \in Usernames :
        \E id \in (IF username = "admin" THEN EntryIds ELSE {EmptyEntry}),
           name \in (IF username = "admin" THEN Names ELSE {"Widget"}),
           price \in (IF username = "admin" THEN Prices ELSE {"80"}) :
            UpdatePriceStep(username, id, name, price)

\* the process ends and the program is started again: products.json stays,
\* the new process has a new PriceFetcher and no observers
Restart ==
    /\ instance
    /\ \E st \in {PriceFetcher_new([St EXCEPT !.instance = FALSE,
                                               !.products = <<>>])} :
          /\ SetStore(st)
          /\ last' = Op("startup", "-", st.saves, "none")
    /\ registered' = {}
    /\ objs' = <<>>
    /\ observers' = <<>>
    /\ delivered' = <<>>

Next == Startup \/ UserAddProduct \/ AdminUpdatePrice \/ Restart

Spec == Init /\ [][Next]_vars

\* ------------------------------------------------------ the class interface
\* PriceTracker_observer(product_name, price): random.randint draws the id.
\* The price field is never read again and is left out of the object
NewObserver ==
    /\ Len(objs) < MaxObjs
    /\ \E n \in ObserverIds, name \in Names :
         objs' = Append(objs, [observer_id |-> n, product_name |-> name])
    /\ delivered' = <<>>
    /\ last' = Op("new_observer", "-", 0, "none")
    /\ UNCHANGED <<instance, products, file, registered, observers>>

Attach ==
    /\ Len(observers) < MaxAttach
    /\ \E o \in DOMAIN objs : observers' = PriceTracker_attach(observers, o)
    /\ delivered' = <<>>
    /\ last' = Op("attach", "-", 0, "none")
    /\ UNCHANGED <<instance, products, file, registered, objs>>

Detach ==
    /\ \E o \in DOMAIN objs :
         \E r \in {PriceTracker_detach(observers, o)} :
            /\ observers' = r.observers
            /\ last' = Op("detach", "-", 0, r.raised)
    /\ delivered' = <<>>
    /\ UNCHANGED <<instance, products, file, registered, objs>>

\* the ids a caller can pass: an observer's own id (an int), or the same
\* numeral as text
CallIds == IntKeys \cup StrKeys

Notify ==
    /\ \E id \in CallIds, price \in Prices :
         delivered' = PriceTracker_notify(objs, observers, id, price)
    /\ last' = Op("notify", "-", 0, "none")
    /\ UNCHANGED <<instance, products, file, registered, objs, observers>>

NextTracker == NewObserver \/ Attach \/ Detach \/ Notify

SpecTracker == Init /\ [][NextTracker]_vars

\* PriceTrackerFactory().create_price_fetcher().add_product(observer.observer_id, ...)
\* for an observer made through the class interface
ApiAddProduct ==
    /\ \E o \in DOMAIN objs, price \in Prices :
         \E r \in {PriceFetcher_add_product(PriceFetcher_new(St),
                       IntKey(objs[o].observer_id), objs[o].product_name, price)} :
            /\ NumRecords(r.st.products) <= MaxProducts
            /\ SetStore(r.st)
            /\ last' = Op("add_product", "-", r.st.saves, "none")
    /\ delivered' = <<>>
    /\ UNCHANGED <<registered, objs, observers>>

TrackerUpdatePrice ==
    /\ \E id \in CallIds, name \in Names, price \in Prices :
         \E r \in {PriceTracker_update_price(St, objs, observers, id, name, price)} :
            /\ SetStore(r.st)
            /\ delivered' = r.delivered
            /\ last' = Op("tracker_update_price", "-", r.st.saves, "none")
    /\ UNCHANGED <<registered, objs, observers>>

NextApi ==
    NewObserver \/ Attach \/ Detach \/ Notify \/ ApiAddProduct \/ TrackerUpdatePrice

SpecApi == Init /\ [][NextApi]_vars

\* ================================================================= claims
PairIn(prods, k, name) == Has(prods, k) /\ name \in DOMAIN Get(prods, k)
\* the (identity, product name) pairs a listing of a mapping shows
\* (show_admin_view walks every item of every inner dict)
Listed(prods) == {pr \in Keys(prods) \X Names : PairIn(prods, pr[1], pr[2])}
PriceOf(prods, k, name) == Get(prods, k)[name]
EmptyKeys(prods) == {k \in Keys(prods) : DOMAIN Get(prods, k) = {}}
\* a fresh PriceFetcher reading the file st holds
FreshLoad(st) ==
    PriceFetcher_new([st EXCEPT !.instance = FALSE, !.products = <<>>, !.saves = 0])
AllKeys == IntKeys \cup StrKeys \cup {StrKey(MaxId + 1)}
Admin(id, name, price) ==
    ProductManagementSystem_update_price(St, "admin", id, name, price)

\* C1 (as claimed): for a product registered in this process under identity I,
\* an admin update that names I (by typing its numeral), the product and a
\* price p reports success, leaves no entry for (I, name) in the store, and the
\* observer attached at registration has printed a notification carrying p.
C1_RegisteredProductUpdateNotifies ==
    instance =>
        \A reg \in registered, price \in Prices :
            LET r == Admin(StrKey(reg.observer_id), reg.product_name, price)
            IN /\ r.msg = "Success"
               /\ ~PairIn(r.st.products, IntKey(reg.observer_id), reg.product_name)
               /\ ~PairIn(r.st.products, StrKey(reg.observer_id), reg.product_name)
               /\ \E i \in DOMAIN r.delivered :
                    r.delivered[i] = [observer_id |-> reg.observer_id,
                                      product_name |-> reg.product_name,
                                      price |-> price]

\* C2 (as claimed): an admin update for a pair present in the store reports
\* success; afterwards the pair is in no listing, neither of the in-memory
\* mapping nor of the persisted file, and every other entry keeps its price.
C2_PresentPairUpdatedAndGone ==
    instance =>
        \A id \in EntryIds, name \in Names, price \in Prices :
            PairIn(products, id, name) =>
                LET r == Admin(id, name, price)
                IN /\ r.msg = "Success"
                   /\ <<id, name>> \notin Listed(r.st.products)
                   /\ <<id, name>> \notin Listed(Load(r.st.file.doc))
                   /\ \A pr \in Listed(products) \ {<<id, name>>} :
                        /\ pr \in Listed(r.st.products)
                        /\ PriceOf(r.st.products, pr[1], pr[2])
                             = PriceOf(products, pr[1], pr[2])

\* C3: an admin update for a pair absent from the store (identity unknown, or
\* known without that product) reports failure and changes neither the
\* in-memory mapping nor the persisted file; the state it leaves is the state
\* it found, so any number of repetitions changes nothing.
C3_AbsentPairUpdateIsNoOp ==
    instance =>
        \A id \in EntryIds, name \in Names, price \in Prices :
            ~PairIn(products, id, name) =>
                \A r \in {Admin(id, name, price)} :
                   /\ r.msg \in {"NotFound", "Failed"}
                   /\ r.st.products = products
                   /\ r.st.file = file
                   /\ r.st.instance = instance

C3_Witness ==
    /\ last.op = "update_price"
    /\ last.msg = "NotFound"
    /\ Listed(products) # {}
    /\ \E id \in StrKeys, name \in Names :
         Has(products, id) /\ ~PairIn(products, id, name)

\* C4 (as claimed): saving the store and loading the file into a fresh
\* instance gives a mapping equal to the one saved: the same identity keys and,
\* under each, the same product-name-to-price entries.
C4_SaveLoadRoundTrip ==
    instance =>
        AsMap(FreshLoad(PriceFetcher_save_data(St)).products) = AsMap(products)

\* C5: add_product(identity, name, price) returns True; afterwards
\* get_price(identity) maps name to that price, the other names under the
\* identity and all other identities are as before; get_price of an identity
\* not in the store is the empty mapping.
C5_AddProductUpserts ==
    instance =>
        /\ \A k \in AllKeys, name \in Names, price \in Prices :
             \A r \in {PriceFetcher_add_product(St, k, name, price)} :
             \A before \in {PriceFetcher_get_price(St, k)} :
             \A after \in {PriceFetcher_get_price(r.st, k)} :
                /\ r.ret = TRUE
                /\ name \in DOMAIN after /\ after[name] = price
                /\ DOMAIN after = (DOMAIN before) \cup {name}
                /\ \A other \in (DOMAIN before) \ {name} : after[other] = before[other]
                /\ Keys(r.st.products) = Keys(products) \cup {k}
                /\ \A k2 \in Keys(products) \ {k} :
                     PriceFetcher_get_price(r.st, k2) = PriceFetcher_get_price(St, k2)
        /\ \A k \in AllKeys \ Keys(products) :
             DOMAIN PriceFetcher_get_price(St, k) = {}

C5_Witness ==
    /\ last.op = "add_product"
    /\ \E k \in Keys(products) : Cardinality(DOMAIN Get(products, k)) = 2
    /\ Cardinality(Keys(products)) >= 2

C10_NoEmptyIdentityAfterWrite ==
    (last.op = "add_product" \/ (last.op = "update_price" /\ last.msg = "Success"))
        => EmptyKeys(products) = {}

\* C10 (amended): a write by add_product or by a successful
\* PriceFetcher.update_price leaves the identity it wrote with at least one
\* entry and empties no identity; the purge ending an admin update keeps every
\* identity key and can leave only the identity it purged with no entry; the
\* identities add_product generated in this process are never empty.
C10_OnlyPurgeEmptiesAnIdentity ==
    instance =>
        /\ \A k \in AllKeys, name \in Names, price \in Prices :
             /\ \A r \in {PriceFetcher_add_product(St, k, name, price).st.products} :
                   /\ k \notin EmptyKeys(r)
                   /\ EmptyKeys(r) \subseteq EmptyKeys(products)
             /\ \A u \in {PriceFetcher_update_price(St, k, name, price)} :
                   u.ret =>
                     /\ k \notin EmptyKeys(u.st.products)
                     /\ EmptyKeys(u.st.products) \subseteq EmptyKeys(products)
        /\ \A id \in EntryIds, name \in Names, price \in Prices :
             \A r \in {Admin(id, name, price).st.products} :
                /\ Keys(r) = Keys(products)
                /\ EmptyKeys(r) \subseteq EmptyKeys(products) \cup {id}
        /\ EmptyKeys(products) \cap IntKeys = {}

C10_Witness ==
    /\ last.op = "add_product"
    /\ EmptyKeys(products) # {}

\* positions of the attached entries whose observer has the given identity
Matching(id) ==
    {i \in DOMAIN observers : IntKey(objs[observers[i]].observer_id) = id}
Attached(o) == \E i \in DOMAIN observers : observers[i] = o
FirstAt(o) == CHOOSE i \in DOMAIN observers :
                  observers[i] = o /\ \A j \in 1..(i - 1) : observers[j] # o

\* C6: notify(identity, price) prints one line per attached entry whose
\* observer has that identity (an observer attached twice prints twice), in
\* attachment order, each carrying the price, and nothing for entries with
\* another identity; the lines come from the entries of the list alone, so an
\* observer detached as often as it was attached prints nothing.
C6_NotifyReachesExactlyMatchingEntries ==
    \A id \in CallIds, price \in Prices :
        LET out == PriceTracker_notify(objs, observers, id, price)
        IN /\ Len(out) = Cardinality(Matching(id))
           /\ \A i \in Matching(id) :
                out[Cardinality({j \in Matching(id) : j <= i})]
                    = Line(objs[observers[i]], price)

C6_Witness ==
    /\ last.op = "notify"
    /\ Len(delivered) = 2
    /\ Len(observers) = 3
    /\ \E i, j \in DOMAIN observers : i # j /\ observers[i] = observers[j]

\* C7 (as claimed): detach of an observer that is not attached raises no error
\* and leaves the list unchanged; detach of an attached observer removes
\* exactly its first entry.
C7_DetachAbsentIsSilent ==
    \A o \in DOMAIN objs :
        LET r == PriceTracker_detach(observers, o)
        IN IF Attached(o)
           THEN /\ r.raised = "none"
                /\ r.observers =
                     [j \in 1..(Len(observers) - 1) |->
                        IF j < FirstAt(o) THEN observers[j] ELSE observers[j + 1]]
           ELSE /\ r.raised = "none"
                /\ r.observers = observers

\* C7 (amended): detach of an observer that is not attached raises ValueError
\* and leaves the list unchanged; detach of an attached observer raises nothing
\* and removes exactly its first entry.
C7_DetachAbsentRaises ==
    \A o \in DOMAIN objs :
        LET r == PriceTracker_detach(observers, o)
        IN IF Attached(o)
           THEN /\ r.raised = "none"
                /\ r.observers =
                     [j \in 1..(Len(observers) - 1) |->
                        IF j < FirstAt(o) THEN observers[j] ELSE observers[j + 1]]
           ELSE /\ r.raised = "ValueError"
                /\ r.observers = observers

C7_Witness ==
    /\ last.op = "detach"
    /\ last.raised = "ValueError"
    /\ observers # <<>>

\* C8 (as claimed): a price update through PriceTracker.update_price or the
\* admin's update_price for a pair that is not in the store ends with the
\* store as it was and without any observer notified.
C8_NoNotificationWithoutPersistedUpdate ==
    LET st0 == PriceFetcher_new(St)
    IN /\ \A id \in CallIds, name \in Names, price \in Prices :
            ~PairIn(st0.products, id, name) =>
                LET r == PriceTracker_update_price(St, objs, observers, id, name, price)
                IN /\ r.st.products = st0.products
                   /\ r.st.file = st0.file
                   /\ r.delivered = <<>>
       /\ \A id \in EntryIds, name \in Names, price \in Prices :
            ~PairIn(st0.products, id, name) =>
                LET r == ProductManagementSystem_update_price(
                             st0, "admin", id, name, price)
                IN /\ r.st.products = st0.products
                   /\ r.st.file = st0.file
                   /\ r.delivered = <<>>

====
